---- MODULE Spec2Model ----
(***************************************************************************)
(* Universal Label Printer (src/main.py).                                  *)
(*                                                                         *)
(* Text is a sequence of one-character strings.  Two specifications:       *)
(*   Spec       the program: printer selection, test-mode toggle and the   *)
(*              browse_and_print handler, stepping through print_labels    *)
(*              and send_raw_to_printer one external call at a time;       *)
(*   SplitSpec  split_zpl_labels applied to one text drawn from Texts.     *)
(***************************************************************************)
EXTENDS Integers, Sequences, FiniteSets

VARIABLES
    system_name,       \* platform.system().lower(): "windows" or "linux"
    pywin32,           \* whether `import win32print` succeeds
    printers,          \* list_printers() as called by create_gui
    disk,              \* the label file on the disk (its text, or Unreadable)
    selected_printer,  \* the module global
    test_var,          \* the Tk IntVar of the test-mode checkbox
    pc,                \* position of the running handler ("idle": event loop)
    file_path,         \* the file chosen in the dialog (as its text), or NoPath
    content,           \* print_labels: text read from the file
    labels,            \* print_labels: result of split_zpl_labels
    to_print,          \* print_labels: the blocks to dispatch
    i,                 \* print_labels: index of the block being dispatched
    pending,           \* send_raw_to_printer: exception in flight through finally
    handle_open,       \* send_raw_to_printer: the win32 printer handle is open
    tmp_exists,        \* send_raw_to_printer: the temporary file of this dispatch exists
    calls,             \* win32print calls made by the current dispatch, in order
    sent,              \* data of every send_raw_to_printer call of this interaction
    raised,            \* exceptions raised by send_raw_to_printer in this interaction
    opened,            \* the label file was opened in this interaction
    test_only,         \* print_labels: its test_only argument
    shown              \* the message box shown by this interaction

vars == <<system_name, pywin32, printers, disk, selected_printer, test_var, pc,
          file_path, content, labels, to_print, i, pending, handle_open,
          tmp_exists, calls, sent, raised, opened, test_only, shown>>

----------------------------------------------------------------------------
(* Bounds *)

MaxPieces == 4        \* SplitSpec: a text is at most this many pieces
MaxFilePieces == 5    \* Spec: a label file is at most this many pieces

----------------------------------------------------------------------------
(* Text *)

XZ == <<"^", "X", "Z">>
XA == <<"^", "X", "A">>
Terminator == <<"^", "X", "Z", "\n">>

\* The characters str.strip() removes that occur in the model's texts.
Whitespace == {" ", "\n", "\t"}

None == "None"
\* A file that cannot be opened, and the empty path of a cancelled dialog:
\* as file_path holds a file's text, these are texts no file has.
Unreadable == <<"unreadable file">>
NoPath == <<"">>

\* "^XA foo ^XZ ^XA bar ^XZbaz"
Example ==
    <<"^", "X", "A", " ", "f", "o", "o", " ", "^", "X", "Z",
      " ", "^", "X", "A", " ", "b", "a", "r", " ", "^", "X", "Z",
      "b", "a", "z">>

Pieces == {XZ, XA, <<" ">>, <<"\n">>, <<"f">>, <<"^">>, <<"X">>, <<"Z">>}
FilePieces == {XZ, XA, <<" ">>, <<"f">>}

RECURSIVE Concats(_, _)
Concats(P, n) ==
    IF n = 0 THEN {<<>>}
    ELSE LET prev == Concats(P, n - 1)
         IN  prev \cup {t \o p : t \in prev, p \in P}

Texts == Concats(Pieces, MaxPieces) \cup {Example}
Files == Concats(FilePieces, MaxFilePieces)

----------------------------------------------------------------------------
(* Built-in string operations used by the program *)

\* sub in s
Contains(s, sub) ==
    \E k \in 1..(Len(s) - Len(sub) + 1) : SubSeq(s, k, k + Len(sub) - 1) = sub

\* s.split(sep): scan left to right; a match at k closes the segment begun at
\* start and the scan resumes after the match.
RECURSIVE SplitScan(_, _, _, _)
SplitScan(s, sep, k, start) ==
    IF k + Len(sep) - 1 > Len(s)
        THEN <<SubSeq(s, start, Len(s))>>
    ELSE IF SubSeq(s, k, k + Len(sep) - 1) = sep
        THEN <<SubSeq(s, start, k - 1)>>
                 \o SplitScan(s, sep, k + Len(sep), k + Len(sep))
    ELSE SplitScan(s, sep, k + 1, start)

\* Variant: the text after the last delimiter is not a segment.
str_split_drop_tail(s, sep) ==
    LET all == SplitScan(s, sep, 1, 1)
    IN  SubSeq(all, 1, Len(all) - 1)

str_split(s, sep) == SplitScan(s, sep, 1, 1)

\* s.strip(): drop leading and trailing whitespace.
RECURSIVE LStrip(_)
LStrip(s) ==
    IF s # <<>> /\ Head(s) \in Whitespace THEN LStrip(Tail(s)) ELSE s

RECURSIVE RStrip(_)
RStrip(s) ==
    IF s # <<>> /\ s[Len(s)] \in Whitespace
        THEN RStrip(SubSeq(s, 1, Len(s) - 1))
        ELSE s

str_strip(s) == RStrip(LStrip(s))

----------------------------------------------------------------------------
(* split_zpl_labels *)

\* Variant: `if part`, without the strip.
KeepPartNonEmpty(part) == part # <<>>

\* `if part.strip()`: a non-empty string is true.
KeepPart(part) == str_strip(part) # <<>>

\* Variant: "^XZ" is appended without the newline.
RECURSIVE LabelsLoopNoNewline(_, _)
LabelsLoopNoNewline(parts, k) ==
    IF k > Len(parts) THEN <<>>
    ELSE (IF str_strip(parts[k]) # <<>> THEN <<parts[k] \o XZ>> ELSE <<>>)
             \o LabelsLoopNoNewline(parts, k + 1)

\* the for loop over parts, appending part + "^XZ\n" for each part kept
RECURSIVE LabelsLoop(_, _)
LabelsLoop(parts, k) ==
    IF k > Len(parts) THEN <<>>
    ELSE (IF KeepPart(parts[k]) THEN <<parts[k] \o Terminator>> ELSE <<>>)
             \o LabelsLoop(parts, k + 1)

split_zpl_labels(text) == LabelsLoop(str_split(text, XZ), 1)

----------------------------------------------------------------------------
(* Exceptions and message boxes *)

\* An exception: what failed, and during the dispatch of which block (0: none).
Exc(reason, block) == [reason |-> reason, block |-> block]
NoExc == Exc("none", 0)

Msg(kind, e) == [kind |-> kind, reason |-> e.reason, block |-> e.block]
NoMsg == Msg("none", NoExc)

\* The printers installed on the host, as the OS enumerates them.
Installed == {<<>>, <<"Zebra", "Elgin">>}

list_printers(sys, has_pywin32, installed) ==
    IF sys = "windows"
        THEN IF ~has_pywin32 THEN <<>> ELSE installed
        ELSE installed

----------------------------------------------------------------------------
(* print_labels and browse_and_print: the decisions *)

\* Variant: only the empty name counts as no selection.
PrinterChosenNotEmpty(sel) == sel # ""

\* `if not selected_printer` is not taken
PrinterChosen(sel) == sel # None /\ sel # ""

\* Variant: any non-empty file passes.
HasText(text) == text # <<>>

\* Variant: the check looks for "^" alone.
HasCaret(text) == Contains(text, <<"^">>)

\* `"^XA" not in content` is false
HasZPL(text) == Contains(text, XA)

\* Variant: test_only is ignored.
ToPrintAll(lbls, test) == lbls

\* labels[:1] if test_only else labels
ToPrint(lbls, test) ==
    IF test
        THEN SubSeq(lbls, 1, IF Len(lbls) < 1 THEN Len(lbls) ELSE 1)
        ELSE lbls

\* Variant: the loop goes on after a failed dispatch.
AfterSendContinue(failed, k, n) ==
    IF k < n THEN "next"
    ELSE IF failed THEN "except"
    ELSE "done"

\* What follows the k-th of n calls of send_raw_to_printer in the for loop:
\* an exception leaves the loop and print_labels, and browse_and_print catches it.
AfterSend(failed, k, n) ==
    IF failed THEN "except"
    ELSE IF k < n THEN "next"
    ELSE "done"

\* Variant: the handle is closed right after the write.
WinNextSkipEnd(step, ok) ==
    IF ~ok THEN "ClosePrinter"
    ELSE CASE step = "StartDocPrinter"  -> "StartPagePrinter"
           [] step = "StartPagePrinter" -> "WritePrinter"
           [] OTHER                     -> "ClosePrinter"

\* The try/finally around the spooler calls: the call after `step`.
WinNext(step, ok) ==
    IF ~ok THEN "ClosePrinter"
    ELSE CASE step = "StartDocPrinter"  -> "StartPagePrinter"
           [] step = "StartPagePrinter" -> "WritePrinter"
           [] step = "WritePrinter"     -> "EndPagePrinter"
           [] step = "EndPagePrinter"   -> "EndDocPrinter"
           [] step = "EndDocPrinter"    -> "ClosePrinter"

JobSteps == {"StartDocPrinter", "StartPagePrinter", "WritePrinter",
             "EndPagePrinter", "EndDocPrinter"}

\* The try/finally around lp: where the temporary file's fate is decided after
\* the `with` block that creates and writes it.
AfterTmpWrite(outcome) == IF outcome = "ok" THEN "lp" ELSE "raise"

----------------------------------------------------------------------------
(* Initial state: create_gui up to mainloop() *)

Init ==
    /\ system_name \in {"windows", "linux"}
    /\ pywin32 \in BOOLEAN
    /\ system_name = "linux" => ~pywin32
    /\ \E installed \in Installed :
           printers = list_printers(system_name, pywin32, installed)
    /\ disk \in Files \cup {Unreadable}
    /\ selected_printer = IF printers # <<>> THEN printers[1] ELSE None
    /\ test_var = 1
    /\ pc = "idle"
    /\ file_path = NoPath
    /\ content = <<>>
    /\ labels = <<>>
    /\ to_print = <<>>
    /\ i = 0
    /\ pending = NoExc
    /\ handle_open = FALSE
    /\ tmp_exists = FALSE
    /\ calls = <<>>
    /\ sent = <<>>
    /\ raised = <<>>
    /\ opened = FALSE
    /\ test_only = FALSE
    /\ shown = NoMsg

env == <<system_name, pywin32, printers, disk>>

----------------------------------------------------------------------------
(* GUI events *)

\* The user clicks the test-mode checkbox.
ToggleTest ==
    /\ pc = "idle"
    /\ test_var' = 1 - test_var
    /\ UNCHANGED <<env, selected_printer, pc, file_path, content, labels,
                   to_print, i, pending, handle_open, tmp_exists, calls, sent,
                   raised, opened, test_only, shown>>

on_printer_select ==
    /\ pc = "idle"
    /\ \E k \in 1..Len(printers) : selected_printer' = printers[k]
    /\ UNCHANGED <<env, test_var, pc, file_path, content, labels,
                   to_print, i, pending, handle_open, tmp_exists, calls, sent,
                   raised, opened, test_only, shown>>

\* browse_and_print up to the call of print_labels.
browse_and_print ==
    /\ pc = "idle"
    /\ \E choice \in {disk, NoPath} :
           IF choice = NoPath
               THEN UNCHANGED <<pc, file_path, content, labels, to_print, i,
                                pending, handle_open, tmp_exists, calls, sent,
                                raised, opened, test_only, shown>>
               ELSE /\ file_path' = choice
                    /\ content' = <<>>
                    /\ labels' = <<>>
                    /\ to_print' = <<>>
                    /\ i' = 0
                    /\ pending' = NoExc
                    /\ handle_open' = FALSE
                    /\ tmp_exists' = FALSE
                    /\ calls' = <<>>
                    /\ sent' = <<>>
                    /\ raised' = <<>>
                    /\ opened' = FALSE
                    /\ test_only' = (test_var # 0)
                    /\ IF PrinterChosen(selected_printer)
                           THEN pc' = "print_labels" /\ shown' = NoMsg
                           ELSE pc' = "idle"
                                /\ shown' = Msg("error", Exc("no printer selected", 0))
    /\ UNCHANGED <<env, selected_printer, test_var>>

----------------------------------------------------------------------------
(* print_labels *)

\* print_labels up to the for loop; a RuntimeError is caught by
\* browse_and_print, which shows it.
print_labels ==
    /\ pc = "print_labels"
    /\ opened' = TRUE
    /\ IF file_path = Unreadable
           THEN /\ shown' = Msg("error", Exc("Could not read file", 0))
                /\ pc' = "idle"
                /\ UNCHANGED <<content, labels, to_print, i>>
           ELSE LET text == file_path
                    lbls == split_zpl_labels(text)
                IN  /\ content' = text
                    /\ IF ~HasZPL(text)
                           THEN /\ shown' = Msg("error", Exc("missing ^XA", 0))
                                /\ pc' = "idle"
                                /\ UNCHANGED <<labels, to_print, i>>
                       ELSE IF lbls = <<>>
                           THEN /\ labels' = lbls
                                /\ shown' = Msg("error", Exc("No labels found", 0))
                                /\ pc' = "idle"
                                /\ UNCHANGED <<to_print, i>>
                       ELSE /\ labels' = lbls
                            /\ to_print' = ToPrint(lbls, test_only)
                            /\ i' = 1
                            /\ pc' = "send"
                            /\ UNCHANGED shown
    /\ UNCHANGED <<env, selected_printer, test_var, file_path, pending,
                   handle_open, tmp_exists, calls, sent, raised, test_only>>

\* send_raw_to_printer returns (e = NoExc) or raises e: the for loop goes on,
\* or browse_and_print shows the success or the error.
SendExit(e) ==
    LET step == AfterSend(e # NoExc, i, Len(to_print))
    IN  /\ raised' = IF e # NoExc THEN Append(raised, e) ELSE raised
        /\ pc' = IF step = "next" THEN "send" ELSE "idle"
        /\ i' = IF step = "next" THEN i + 1 ELSE i
        /\ shown' = CASE step = "except" -> Msg("error", e)
                      [] step = "done" ->
                            Msg("info", Exc(IF test_var # 0 THEN "first sent"
                                                            ELSE "all sent", 0))
                      [] OTHER -> shown

----------------------------------------------------------------------------
(* send_raw_to_printer *)

\* Entry: the platform branch and, on Windows, the import.
send_raw_to_printer ==
    /\ pc = "send"
    /\ sent' = Append(sent, to_print[i])
    /\ calls' = <<>>
    /\ pending' = NoExc
    /\ tmp_exists' = FALSE
    /\ handle_open' = FALSE
    /\ IF system_name = "windows"
           THEN IF pywin32
                    THEN pc' = "OpenPrinter" /\ UNCHANGED <<i, raised, shown>>
                    ELSE SendExit(Exc("pywin32 is required", i))
           ELSE pc' = "NamedTemporaryFile" /\ UNCHANGED <<i, raised, shown>>
    /\ UNCHANGED <<env, selected_printer, test_var, file_path, content, labels,
                   to_print, opened, test_only>>

OpenPrinter ==
    /\ pc = "OpenPrinter"
    /\ calls' = Append(calls, "OpenPrinter")
    /\ \E ok \in BOOLEAN :
           IF ok
               THEN /\ handle_open' = TRUE
                    /\ pc' = "StartDocPrinter"
                    /\ UNCHANGED <<i, raised, shown>>
               ELSE /\ UNCHANGED handle_open
                    /\ SendExit(Exc("Could not open printer", i))
    /\ UNCHANGED <<env, selected_printer, test_var, file_path, content, labels,
                   to_print, pending, tmp_exists, sent, opened, test_only>>

\* One call inside the try block; win32print.error leaves it for the finally.
PrinterJobStep ==
    /\ pc \in JobSteps
    /\ calls' = Append(calls, pc)
    /\ \E ok \in BOOLEAN :
           /\ pc' = WinNext(pc, ok)
           /\ pending' = IF ok THEN pending ELSE Exc(pc, i)
    /\ UNCHANGED <<env, selected_printer, test_var, file_path, content, labels,
                   to_print, i, handle_open, tmp_exists, sent, raised, opened,
                   test_only, shown>>

\* finally: ClosePrinter, then the return or the exception in flight.
ClosePrinter ==
    /\ pc = "ClosePrinter"
    /\ calls' = Append(calls, "ClosePrinter")
    /\ handle_open' = FALSE
    /\ \E ok \in BOOLEAN :
           SendExit(IF ok THEN pending ELSE Exc("ClosePrinter", i))
    /\ UNCHANGED <<env, selected_printer, test_var, file_path, content, labels,
                   to_print, pending, tmp_exists, sent, opened, test_only>>

\* with tempfile.NamedTemporaryFile(delete=False) as tmp: tmp.write(...)
NamedTemporaryFile ==
    /\ pc = "NamedTemporaryFile"
    /\ \E outcome \in {"ok", "create fails", "write fails"} :
           /\ tmp_exists' = (outcome # "create fails")
           /\ IF AfterTmpWrite(outcome) = "lp"
                  THEN pc' = "lp" /\ UNCHANGED <<i, raised, shown>>
                  ELSE SendExit(Exc(outcome, i))
    /\ UNCHANGED <<env, selected_printer, test_var, file_path, content, labels,
                   to_print, pending, handle_open, calls, sent, opened, test_only>>

\* subprocess.run(["lp", ...]) and the returncode check, inside try
lp ==
    /\ pc = "lp"
    /\ \E outcome \in {"zero", "nonzero", "run raises"} :
           pending' = CASE outcome = "zero" -> NoExc
                        [] outcome = "nonzero" -> Exc("Print error", i)
                        [] OTHER -> Exc("run raises", i)
    /\ pc' = "unlink"
    /\ UNCHANGED <<env, selected_printer, test_var, file_path, content, labels,
                   to_print, i, handle_open, tmp_exists, calls, sent, raised,
                   opened, test_only, shown>>

\* finally: os.unlink(tmp_path), an OSError of which is swallowed
unlink ==
    /\ pc = "unlink"
    /\ \E ok \in BOOLEAN : tmp_exists' = IF ok THEN FALSE ELSE tmp_exists
    /\ SendExit(pending)
    /\ UNCHANGED <<env, selected_printer, test_var, file_path, content, labels,
                   to_print, pending, handle_open, calls, sent, opened, test_only>>

Next ==
    \/ ToggleTest
    \/ on_printer_select
    \/ browse_and_print
    \/ print_labels
    \/ send_raw_to_printer
    \/ OpenPrinter
    \/ PrinterJobStep
    \/ ClosePrinter
    \/ NamedTemporaryFile
    \/ lp
    \/ unlink

Spec == Init /\ [][Next]_vars

----------------------------------------------------------------------------
(* split_zpl_labels on its own: one text in, its blocks out *)

SplitInit ==
    /\ content \in Texts
    /\ pc = "split"
    /\ labels = <<>>
    /\ system_name = "linux"
    /\ pywin32 = FALSE
    /\ printers = <<>>
    /\ disk = NoPath
    /\ selected_printer = None
    /\ test_var = 1
    /\ file_path = NoPath
    /\ to_print = <<>>
    /\ i = 0
    /\ pending = NoExc
    /\ handle_open = FALSE
    /\ tmp_exists = FALSE
    /\ calls = <<>>
    /\ sent = <<>>
    /\ raised = <<>>
    /\ opened = FALSE
    /\ test_only = FALSE
    /\ shown = NoMsg

Split ==
    /\ pc = "split"
    /\ labels' = split_zpl_labels(content)
    /\ pc' = "split done"
    /\ UNCHANGED <<env, selected_printer, test_var, file_path, content,
                   to_print, i, pending, handle_open, tmp_exists, calls, sent,
                   raised, opened, test_only, shown>>

SplitNext == Split

SplitSpec == SplitInit /\ [][SplitNext]_vars

----------------------------------------------------------------------------
(* The segments of a text, stated by the positions of the delimiter.  "^XZ"  *)
(* cannot overlap itself, so every occurrence is a cut.                      *)

DelimAt(s) == {k \in 1..Len(s) : k + 2 <= Len(s) /\ SubSeq(s, k, k + 2) = XZ}

SegStarts(s) == {1} \cup {k + 3 : k \in DelimAt(s)}

SegEnd(s, a) ==
    LET later == {k \in DelimAt(s) : k >= a}
    IN  IF later = {} THEN Len(s)
        ELSE (CHOOSE k \in later : \A m \in later : k <= m) - 1

Segment(s, a) == SubSeq(s, a, SegEnd(s, a))

NonBlank(t) == \E k \in 1..Len(t) : t[k] \notin Whitespace

NonBlankStarts(s) == {a \in SegStarts(s) : NonBlank(Segment(s, a))}

\* the non-blank segments in document order
NonBlankSegments(s) ==
    LET S == NonBlankStarts(s)
    IN  [n \in 1..Cardinality(S) |->
            Segment(s, CHOOSE a \in S : Cardinality({b \in S : b <= a}) = n)]

EndsWithTerminator(b) ==
    Len(b) >= 4 /\ SubSeq(b, Len(b) - 3, Len(b)) = Terminator

StripTerminator(b) == SubSeq(b, 1, Len(b) - 4)

\* every position of s is whitespace or lies in an occurrence of "^XZ"
OnlyBlankAndDelims(s) ==
    \A k \in 1..Len(s) :
        \/ s[k] \in Whitespace
        \/ \E d \in DelimAt(s) : d <= k /\ k <= d + 2

----------------------------------------------------------------------------
(* Claims about split_zpl_labels (under SplitSpec) *)

\* C1: the blocks returned are, in document order, exactly the non-blank
\* segments between occurrences of "^XZ", each with "^XZ\n" appended; so each
\* block is non-empty, ends with "^XZ\n", and stripping the terminator gives
\* back the non-blank segments in order.
C1_SplitReturnsNonBlankSegments ==
    pc = "split done" =>
        /\ \A n \in 1..Len(labels) :
               labels[n] # <<>> /\ EndsWithTerminator(labels[n])
        /\ Len(labels) = Len(NonBlankSegments(content))
        /\ \A n \in 1..Len(labels) :
               StripTerminator(labels[n]) = NonBlankSegments(content)[n]

\* C1 witness: two blocks came out of a text that also had a blank segment.
C1_Witness ==
    /\ pc = "split done"
    /\ Len(labels) = 2
    /\ labels[1] # labels[2]
    /\ Cardinality(SegStarts(content)) > 2

\* C5 as stated: the example text yields exactly two blocks, "baz" dropped.
C5_ExampleTwoBlocks ==
    (pc = "split done" /\ content = Example) =>
        labels = << <<"^", "X", "A", " ", "f", "o", "o", " ", "^", "X", "Z", "\n">>,
                    <<" ", "^", "X", "A", " ", "b", "a", "r", " ", "^", "X", "Z", "\n">> >>

\* C5 amended: the example text yields three blocks, the third being the
\* trailing "baz" with the terminator appended.
C5_ExampleThreeBlocks ==
    (pc = "split done" /\ content = Example) =>
        labels = << <<"^", "X", "A", " ", "f", "o", "o", " ", "^", "X", "Z", "\n">>,
                    <<" ", "^", "X", "A", " ", "b", "a", "r", " ", "^", "X", "Z", "\n">>,
                    <<"b", "a", "z", "^", "X", "Z", "\n">> >>

\* C5 witness: the example text has been split.
C5_Witness == pc = "split done" /\ content = Example /\ Len(labels) = 3

\* C6: a text of whitespace and "^XZ" occurrences only (the empty text
\* included) yields no block.
C6_BlankTextYieldsNothing ==
    (pc = "split done" /\ OnlyBlankAndDelims(content)) => labels = <<>>

\* C6 witness: a text with whitespace and two delimiters was split to nothing.
C6_Witness ==
    /\ pc = "split done"
    /\ OnlyBlankAndDelims(content)
    /\ Cardinality(DelimAt(content)) = 2
    /\ \E k \in 1..Len(content) : content[k] \in Whitespace
    /\ labels = <<>>

----------------------------------------------------------------------------
(* Claims about print_labels, browse_and_print and send_raw_to_printer       *)
(* (under Spec)                                                              *)

\* browse_and_print has returned
Returned == pc = "idle" /\ file_path # NoPath

\* print_labels has read a file; its text is file_path
HasRead == opened /\ pc # "print_labels" /\ file_path # Unreadable

\* send_raw_to_printer has been called and has returned or raised
Exited == pc \in {"idle", "send"} /\ sent # <<>>

\* the latest call of send_raw_to_printer raised
LastSendFailed ==
    raised # <<>> /\ raised[Len(raised)].block = Len(sent)

\* C2: when every dispatch succeeded, test mode made exactly one call, with
\* the first block, and full mode made one call per block, in document order.
C2_DispatchCount ==
    (Returned /\ shown.kind = "info") =>
        /\ Len(labels) >= 1
        /\ labels = [n \in 1..Len(labels) |->
                        NonBlankSegments(content)[n] \o Terminator]
        /\ IF test_only THEN sent = <<labels[1]>> ELSE sent = labels

\* C2 witness: test mode over a file of three blocks sent one block.
C2_Witness ==
    /\ Returned
    /\ shown.kind = "info"
    /\ test_only
    /\ Len(labels) = 3
    /\ Len(sent) = 1

\* C3: a file whose text lacks "^XA" is rejected with an error and no call of
\* send_raw_to_printer is made, in either mode, whatever its segments.
C3_MissingStartMarkerRejected ==
    (HasRead /\ ~(\E k \in 1..Len(file_path) :
                      k + 2 <= Len(file_path) /\ SubSeq(file_path, k, k + 2) = XA)) =>
        /\ sent = <<>>
        /\ pc = "idle"
        /\ shown = Msg("error", Exc("missing ^XA", 0))

\* C3 witness: a file with two "^XZ"-terminated non-blank segments and no
\* "^XA" was rejected in full mode.
C3_Witness ==
    /\ Returned
    /\ shown.reason = "missing ^XA"
    /\ ~test_only
    /\ Cardinality(DelimAt(content)) = 2
    /\ Cardinality(NonBlankStarts(content)) = 2

\* C4: in full mode, once the dispatch of block k fails, exactly k calls were
\* made (blocks 1..k in order), no later block is attempted, nothing is
\* retried, and the error shown is the one block k's dispatch raised.
C4_FirstFailureAborts ==
    (~test_only /\ raised # <<>>) =>
        /\ Len(raised) = 1
        /\ pc = "idle"
        /\ Len(sent) = raised[1].block
        /\ sent = SubSeq(labels, 1, raised[1].block)
        /\ shown = Msg("error", raised[1])

\* C4 witness: block 2 of 3 failed in full mode.
C4_Witness ==
    /\ Returned
    /\ ~test_only
    /\ Len(labels) = 3
    /\ raised # <<>>
    /\ raised[1].block = 2
    /\ Len(sent) = 2

\* C7 as stated: on the lp path the temporary file of a dispatch is gone
\* whenever send_raw_to_printer has returned or raised.
C7_TempFileRemoved ==
    (system_name = "linux" /\ Exited) => ~tmp_exists

\* C8: with no printer selected, the error is shown without the label file
\* being opened or read and without any call of send_raw_to_printer.
C8_NoPrinterBeforeFileIO ==
    selected_printer = None =>
        /\ pc = "idle"
        /\ ~opened
        /\ sent = <<>>
        /\ file_path # NoPath =>
               shown = Msg("error", Exc("no printer selected", 0))

\* C8 witness: printing was triggered on a printable file with no printer
\* selected.
C8_Witness ==
    /\ Returned
    /\ selected_printer = None
    /\ shown.reason = "no printer selected"
    /\ Contains(disk, XA)
    /\ ~opened

\* C9: a text containing "^XA" splits into at least one block: "No labels
\* found" is never shown, and a print_labels call that passed the "^XA" check
\* calls send_raw_to_printer at least once.
C9_StartMarkerImpliesBlock ==
    /\ shown.reason # "No labels found"
    /\ (HasRead /\ shown.reason # "missing ^XA") =>
           /\ labels # <<>>
           /\ pc = "idle" => Len(sent) >= 1

\* C9 witness: a text with "^XA", one block and a blank segment was dispatched.
C9_Witness ==
    /\ Returned
    /\ Contains(content, XA)
    /\ Cardinality(SegStarts(content)) = 3
    /\ Len(labels) = 1
    /\ Len(sent) = 1

SpoolerCalls == <<"OpenPrinter", "StartDocPrinter", "StartPagePrinter",
                  "WritePrinter", "EndPagePrinter", "EndDocPrinter">>

Closes == Cardinality({n \in 1..Len(calls) : calls[n] = "ClosePrinter"})

\* C10: on the spooler path the calls are made in the order open, start job,
\* write, end job, close; a handle that was opened is closed exactly once on
\* every exit; a failed open is followed by no other call.
C10_SpoolerOrderAndClose ==
    /\ \E n \in 0..Len(SpoolerCalls) :
           \/ calls = SubSeq(SpoolerCalls, 1, n)
           \/ n >= 1 /\ calls = SubSeq(SpoolerCalls, 1, n) \o <<"ClosePrinter">>
    /\ handle_open => (pc \in JobSteps \cup {"ClosePrinter"} /\ Closes = 0)
    /\ (Exited /\ system_name = "windows" /\ pywin32) =>
           /\ ~handle_open
           /\ IF LastSendFailed /\ raised[Len(raised)].reason = "Could not open printer"
                  THEN calls = <<"OpenPrinter">>
                  ELSE Closes = 1 /\ Len(calls) >= 3
           /\ ~LastSendFailed => calls = SpoolerCalls \o <<"ClosePrinter">>

\* C10 witness: WritePrinter failed and the handle was closed.
C10_Witness ==
    /\ Returned
    /\ raised # <<>>
    /\ raised[1].reason = "WritePrinter"
    /\ calls = <<"OpenPrinter", "StartDocPrinter", "StartPagePrinter",
                 "WritePrinter", "ClosePrinter">>
    /\ ~handle_open

====
